---------------------------- MODULE Spec2Model ----------------------------
(***************************************************************************)
(* A model of wescore::ScoutBase (scout_base.cpp): the connection manager, *)
(* the command setters, the control-loop thread, the CAN / serial receive  *)
(* path and the status reducer.                                            *)
(*                                                                         *)
(* Threads.  Caller threads run the public calls; the control-loop thread  *)
(* runs ControlLoop; transport threads run the receive callbacks.  A step  *)
(* of the model is one public call, one receive callback, or one segment   *)
(* of the control loop between two points where another thread can be      *)
(* observed (a lock region, a transport send, an unlocked read of a flag). *)
(* The plain bool flags read by the loop without a lock are read at the    *)
(* step that reads them: the value before or after a concurrent write.     *)
(*                                                                         *)
(* Numbers.  A double is held as an exact fraction [num, den].  Velocity   *)
(* arguments of SetMotionCommand are integers in thousandths of the        *)
(* configured maximum magnitude.  Bytes are 0..255, uint8_t counters wrap  *)
(* modulo 256.                                                             *)
(***************************************************************************)
EXTENDS Integers, Sequences, FiniteSets, TLC

VARIABLES
    can_if_,                \* "null" or "created": std::shared_ptr<ASyncCAN>
    serial_if_,             \* "null", "open" or "closed": the current ASyncSerial
    can_connected_,
    serial_connected_,
    cmd_thread_started_,
    pc,                     \* position of the control-loop thread
    cmd_count,              \* ControlLoop's uint8_t cmd_count
    light_cmd_count,        \* ControlLoop's uint8_t light_cmd_count
    current_motion_cmd_,
    m_msg,                  \* SendMotionCmd's local MotionControlMessage
    current_light_cmd_,
    light_ctrl_enabled_,
    light_ctrl_requested_,
    l_msg,                  \* SendLightCmd's local LightControlMessage
    scout_state_,
    \* observation of the run (not program state)
    conn_call,              \* the last Connect call: its baud rate, a toggle
    motion_call,            \* the arguments of the last SetMotionCommand call
    wire_motion,            \* the last motion frame handed to a transport
    wire_light,             \* the last light frame handed to a transport
    tick_motion,            \* motion frames handed over in the current tick
    tick_light,             \* light frames handed over in the current tick
    light_call_since_tx,    \* a light setter ran since the last light frame went out
    light_call_since_clear, \* a light setter ran since line 214 last ran
    rx,                     \* the last receive callback: frame / message, outcome
    discarded_before,       \* some earlier CAN frame was discarded
    \* threads and locks
    motion_cmd_mutex_,      \* "free" or the thread that holds it
    light_cmd_mutex_,
    scout_state_mutex_,
    cmd_threads,            \* ControlLoop threads created by StartCmdThread
    dtor,                   \* ~ScoutBase: "none", "joining" or "done"
    caller,                 \* per caller thread: its position in a setter, its arguments
    rx_thread,              \* the transport thread inside NewStatusMsgReceivedCallback
    reader,                 \* the thread inside GetScoutState, and what it last returned
    \* observation of the threads (not program state), kept by the steps of
    \* the thread-level specifications
    stored_cmds,            \* the commands completed SetMotionCommand calls stored
    whole_states,           \* scout_state_ after each completed reducer update
    last_light_call,        \* the last completed light setter call
    light_at_clear          \* last_light_call when line 214 last ran

connVars   == <<can_if_, serial_if_, can_connected_, serial_connected_, conn_call>>
motionVars == <<current_motion_cmd_, motion_call>>
lightVars  == <<current_light_cmd_, light_ctrl_enabled_, light_ctrl_requested_,
                light_call_since_tx, light_call_since_clear>>
loopVars   == <<cmd_thread_started_, pc, cmd_count, light_cmd_count, m_msg, l_msg,
                wire_motion, wire_light, tick_motion, tick_light>>
rxVars     == <<scout_state_, rx, discarded_before>>
mutexVars  == <<motion_cmd_mutex_, light_cmd_mutex_, scout_state_mutex_>>
stepVars   == <<dtor, caller, rx_thread, reader,
                stored_cmds, whole_states, last_light_call, light_at_clear>>
threadVars == <<mutexVars, cmd_threads, stepVars>>
vars       == <<connVars, motionVars, lightVars, loopVars, rxVars, threadVars>>

----------------------------------------------------------------------------
(* Bounds of the model *)

\* ticks the control loop runs in the tick-bounded specification
MaxTicks == 2
\* light frames after which the callers stop calling the light setters
MaxLightSends == 2
\* calls each thread makes in the thread-level specifications
MaxCalls == 2
\* messages delivered and GetScoutState calls made in the specification of
\* all threads
MaxReads == 1

UInt8Range == 256

----------------------------------------------------------------------------
(* Integer helpers *)

\* integer quotient rounded toward zero, as a C++ floating -> integer cast does
TruncDiv(a, b) == IF a >= 0 THEN a \div b ELSE -((-a) \div b)

\* nearest integer, halves away from zero (std::round)
RoundDiv(a, b) == IF a >= 0 THEN (2 * a + b) \div (2 * b)
                            ELSE -((2 * (-a) + b) \div (2 * b))

\* uint8_t -> int8_t (two's complement)
ToInt8(u) == IF u >= 128 THEN u - 256 ELSE u


----------------------------------------------------------------------------
(* Initial state: a constructed ScoutBase, nothing connected, no thread *)

NoMsg == [id |-> "none"]

NoFrame == [kind |-> "none"]

NoStatusMsg == [updated_msg_type |-> "none", status |-> [none |-> 0]]

ZeroDouble == [num |-> 0, den |-> 1]

ZeroMotorState == [current |-> ZeroDouble, rpm |-> 0, temperature |-> 0]

ZeroLightState == [mode |-> 0, custom_value |-> 0]

ZeroScoutState ==
    [linear_velocity       |-> ZeroDouble,
     angular_velocity      |-> ZeroDouble,
     control_mode          |-> 0,
     base_state            |-> 0,
     battery_voltage       |-> ZeroDouble,
     fault_code            |-> 0,
     light_control_enabled |-> FALSE,
     front_light_state     |-> ZeroLightState,
     rear_light_state      |-> ZeroLightState,
     motor_states          |-> [i \in 0..3 |-> ZeroMotorState]]

DefaultLightCmd ==
    [front_mode |-> "CONST_OFF", front_custom_value |-> 0,
     rear_mode  |-> "CONST_OFF", rear_custom_value  |-> 0]

InitialMotionCmd ==
    [linear_velocity |-> 0, angular_velocity |-> 0, fault_clear_flag |-> "NO_FAULT"]

\* the caller threads of the thread-level specifications
Callers == {"c1", "c2"}

IdleCaller == [at |-> "idle", calls |-> 0]

IdleRx == [at |-> "idle", n |-> 0, msg |-> NoStatusMsg, base |-> ZeroScoutState,
           calls |-> 0]

Init ==
    /\ can_if_ = "null"
    /\ serial_if_ = "null"
    /\ can_connected_ = FALSE
    /\ serial_connected_ = FALSE
    /\ cmd_thread_started_ = FALSE
    /\ pc = "not_started"
    /\ cmd_count = 0
    /\ light_cmd_count = 0
    /\ current_motion_cmd_ = InitialMotionCmd
    /\ m_msg = NoMsg
    /\ current_light_cmd_ = DefaultLightCmd
    /\ light_ctrl_enabled_ = FALSE
    /\ light_ctrl_requested_ = FALSE
    /\ l_msg = NoMsg
    /\ scout_state_ = ZeroScoutState
    /\ conn_call = [baud |-> -1, n |-> 0]
    /\ motion_call = [called |-> FALSE]
    /\ wire_motion = NoFrame
    /\ wire_light = NoFrame
    /\ tick_motion = 0
    /\ tick_light = 0
    /\ light_call_since_tx = FALSE
    /\ light_call_since_clear = FALSE
    /\ rx = [via |-> "none", frame |-> NoFrame, msg |-> NoStatusMsg, discarded |-> FALSE]
    /\ discarded_before = FALSE
    /\ motion_cmd_mutex_ = "free"
    /\ light_cmd_mutex_ = "free"
    /\ scout_state_mutex_ = "free"
    /\ cmd_threads = 0
    /\ dtor = "none"
    /\ caller = [t \in Callers |-> IdleCaller]
    /\ rx_thread = IdleRx
    /\ reader = [at |-> "idle", copy |-> ZeroScoutState, returned |-> ZeroScoutState,
                 calls |-> 0]
    /\ stored_cmds = {InitialMotionCmd}
    /\ whole_states = {ZeroScoutState}
    /\ last_light_call = [call |-> "none"]
    /\ light_at_clear = [call |-> "none"]

\* the process is alive: no thread has dereferenced an empty handle or
\* run into std::terminate
Alive == pc # "crashed"

----------------------------------------------------------------------------
(* Connection manager *)

\* scout_base.cpp 111-118
ConfigureCANBus ==
    /\ can_if_' = "created"
    /\ can_connected_' = TRUE
    /\ UNCHANGED <<serial_if_, serial_connected_>>

\* scout_base.cpp 120-134; open() may fail, and only a port that is open
\* sets serial_connected_
ConfigureSerial ==
    \E opened \in BOOLEAN :
        /\ serial_if_' = IF opened THEN "open" ELSE "closed"
        /\ serial_connected_' = IF opened THEN TRUE ELSE serial_connected_
        /\ UNCHANGED <<can_if_, can_connected_>>

\* the mutant: the baud-rate test the wrong way round
Connect_swapped(baud_rate) ==
    /\ Alive
    /\ IF baud_rate # 0 THEN ConfigureCANBus ELSE ConfigureSerial
    /\ conn_call' = [baud |-> baud_rate, n |-> 1 - conn_call.n]
    /\ UNCHANGED <<motionVars, lightVars, loopVars, rxVars>>
    /\ UNCHANGED threadVars

\* scout_base.cpp 87-100
Connect(baud_rate) ==
    /\ Alive
    /\ IF baud_rate = 0 THEN ConfigureCANBus ELSE ConfigureSerial
    /\ conn_call' = [baud |-> baud_rate, n |-> 1 - conn_call.n]
    /\ UNCHANGED <<motionVars, lightVars, loopVars, rxVars>>
    /\ UNCHANGED threadVars

\* scout_base.cpp 102-109
Disconnect ==
    /\ Alive
    /\ serial_if_' = IF serial_connected_ /\ serial_if_ = "open"
                     THEN "closed" ELSE serial_if_
    /\ UNCHANGED <<can_if_, can_connected_, serial_connected_, conn_call>>
    /\ UNCHANGED <<motionVars, lightVars, loopVars, rxVars>>
    /\ UNCHANGED threadVars

\* scout_base.cpp 78-85, ~ScoutBase: the serial port closed when
\* serial_connected_, then, when cmd_thread_ is joinable, the join, which
\* returns when ControlLoop has returned
Destructor ==
    /\ Alive
    /\ IF dtor = "none"
       THEN /\ serial_if_' = IF serial_connected_ THEN "closed" ELSE serial_if_
            /\ dtor' = IF pc # "not_started" THEN "joining" ELSE "done"
       ELSE /\ dtor = "joining"
            /\ pc = "returned"
            /\ dtor' = "done"
            /\ UNCHANGED serial_if_
    /\ UNCHANGED <<can_if_, can_connected_, serial_connected_, conn_call>>
    /\ UNCHANGED <<motionVars, lightVars, loopVars, rxVars>>
    /\ UNCHANGED <<mutexVars, cmd_threads, caller, rx_thread, reader,
                   stored_cmds, whole_states, last_light_call, light_at_clear>>

----------------------------------------------------------------------------
(* Command setters *)

\* ScoutMotionCmd's limits, in thousandths of the maximum magnitude
max_linear_velocity == 1000
min_linear_velocity == -1000
max_angular_velocity == 1000
min_angular_velocity == -1000

\* scout_base.cpp 271-278: the saturating clamp
Clamp(v, lo, hi) == IF v < lo THEN lo ELSE IF v > hi THEN hi ELSE v

\* static_cast<uint8_t>(v / max * 100.0), scout_base.cpp 281-282: the
\* fraction is cut toward zero.  A cut value below 0 is not a uint8_t: the
\* conversion is undefined, and a build either keeps the low byte of the
\* integer conversion or saturates at 0.
PercentU8(v, max) ==
    LET t == TruncDiv(v * 100, max)
    IN  IF t >= 0 THEN {t} ELSE {t % UInt8Range, 0}

\* scout_base.cpp 136-140
StartCmdThread ==
    /\ pc' = "tic"
    /\ cmd_threads' = cmd_threads + 1
    /\ cmd_thread_started_' = TRUE

\* scout_base.cpp 265-284; the stored fields are int8_t
SetMotionCommand(linear_vel, angular_vel, fault_clr_flag) ==
    /\ Alive
    /\ IF ~cmd_thread_started_
       THEN StartCmdThread
       ELSE UNCHANGED <<pc, cmd_thread_started_, cmd_threads>>
    /\ LET lin == Clamp(linear_vel, min_linear_velocity, max_linear_velocity)
           ang == Clamp(angular_vel, min_angular_velocity, max_angular_velocity)
       IN  \E l8 \in PercentU8(lin, max_linear_velocity),
              a8 \in PercentU8(ang, max_angular_velocity) :
               current_motion_cmd_' =
                   [linear_velocity  |-> ToInt8(l8),
                    angular_velocity |-> ToInt8(a8),
                    fault_clear_flag |-> fault_clr_flag]
    /\ motion_call' = [called |-> TRUE, linear_vel |-> linear_vel,
                       angular_vel |-> angular_vel, fault_clr_flag |-> fault_clr_flag]
    /\ UNCHANGED <<cmd_count, light_cmd_count, m_msg, l_msg,
                   wire_motion, wire_light, tick_motion, tick_light>>
    /\ UNCHANGED <<connVars, lightVars, rxVars>>
    /\ motion_cmd_mutex_ = "free"
    /\ UNCHANGED <<mutexVars, stepVars>>

\* scout_base.cpp 286-292
SetLightCommand(cmd) ==
    /\ Alive
    /\ current_light_cmd_' = cmd
    /\ light_ctrl_enabled_' = TRUE
    /\ light_ctrl_requested_' = TRUE
    /\ light_call_since_tx' = TRUE
    /\ light_call_since_clear' = TRUE
    /\ UNCHANGED <<connVars, motionVars, loopVars, rxVars>>
    /\ light_cmd_mutex_ = "free"
    /\ UNCHANGED threadVars

\* scout_base.cpp 294-299
DisableLightCmdControl ==
    /\ Alive
    /\ light_ctrl_enabled_' = FALSE
    /\ light_ctrl_requested_' = TRUE
    /\ light_call_since_tx' = TRUE
    /\ light_call_since_clear' = TRUE
    /\ UNCHANGED current_light_cmd_
    /\ UNCHANGED <<connVars, motionVars, loopVars, rxVars>>
    /\ light_cmd_mutex_ = "free"
    /\ UNCHANGED threadVars

----------------------------------------------------------------------------
(* The control-loop thread, scout_base.cpp 238-257 *)

\* cmd_count++ / light_cmd_count++ on a uint8_t: the value stored back
NextCount(c) == (c + 1) % UInt8Range

\* the mutant: ++c, the incremented value passed on
CountArgument_preincrement(c) == (c + 1) % UInt8Range

\* lines 248 and 252: the value of c++, passed as the frame's count
CountArgument(c) == c

\* SendMotionCmd(cmd_count++), lines 248 and 142-169: the message id and
\* control mode by the connected flags (left unset when neither is set),
\* the command copied under motion_cmd_mutex_, the count, and the checksum
\* when CAN is connected.  limit bounds the ticks of a specification.
SendMotionCmd_Build(limit) ==
    /\ pc = "tic"
    /\ cmd_count < limit
    /\ m_msg' =
         [id           |-> IF can_connected_ THEN "CAN_MSG_MOTION_CONTROL_CMD_ID"
                           ELSE IF serial_connected_ THEN "FRAME_MOTION_CONTROL_CMD_ID"
                           ELSE "indeterminate",
          control_mode |-> IF can_connected_ THEN "CTRL_MODE_CMD_CAN"
                           ELSE IF serial_connected_ THEN "CTRL_MODE_CMD_UART"
                           ELSE "indeterminate",
          fault_clear_flag     |-> current_motion_cmd_.fault_clear_flag,
          linear_velocity_cmd  |-> current_motion_cmd_.linear_velocity,
          angular_velocity_cmd |-> current_motion_cmd_.angular_velocity,
          count        |-> CountArgument(cmd_count),
          checksum     |-> IF can_connected_ THEN "Agilex_CANMsgChecksum"
                           ELSE "indeterminate"]
    /\ cmd_count' = NextCount(cmd_count)
    /\ tick_motion' = 0
    /\ tick_light' = 0
    /\ pc' = "m_send"
    /\ UNCHANGED <<cmd_thread_started_, light_cmd_count, l_msg, wire_motion, wire_light>>
    /\ UNCHANGED <<connVars, motionVars, lightVars, rxVars>>
    /\ motion_cmd_mutex_ = "free"
    /\ UNCHANGED threadVars

\* SendMotionCmd, lines 172-183: to the CAN handle when can_connected_,
\* otherwise to the serial handle, whatever its state; an empty serial_if_
\* is dereferenced and the process dies
SendMotionCmd_Send ==
    /\ pc = "m_send"
    /\ IF can_connected_
       THEN /\ wire_motion' = [kind |-> "motion", via |-> "can", port |-> can_if_,
                               msg |-> m_msg]
            /\ tick_motion' = tick_motion + 1
            /\ pc' = "l_check"
       ELSE IF serial_if_ = "null"
       THEN /\ pc' = "crashed"
            /\ UNCHANGED <<wire_motion, tick_motion>>
       ELSE /\ wire_motion' = [kind |-> "motion", via |-> "serial", port |-> serial_if_,
                               msg |-> m_msg]
            /\ tick_motion' = tick_motion + 1
            /\ pc' = "l_check"
    /\ m_msg' = NoMsg
    /\ UNCHANGED <<cmd_thread_started_, cmd_count, light_cmd_count, l_msg,
                   wire_light, tick_light>>
    /\ UNCHANGED <<connVars, motionVars, lightVars, rxVars>>
    /\ UNCHANGED threadVars

\* the mutant: a light frame on every tick, requested or not
ControlLoop_CheckLight_always ==
    /\ pc = "l_check"
    /\ pc' = "l_build"
    /\ UNCHANGED <<cmd_thread_started_, cmd_count, light_cmd_count, m_msg, l_msg,
                   wire_motion, wire_light, tick_motion, tick_light>>
    /\ UNCHANGED <<connVars, motionVars, lightVars, rxVars>>
    /\ UNCHANGED threadVars

\* line 251: the unlocked read of light_ctrl_requested_
ControlLoop_CheckLight ==
    /\ pc = "l_check"
    /\ pc' = IF light_ctrl_requested_ THEN "l_build" ELSE "sleep"
    /\ UNCHANGED <<cmd_thread_started_, cmd_count, light_cmd_count, m_msg, l_msg,
                   wire_motion, wire_light, tick_motion, tick_light>>
    /\ UNCHANGED <<connVars, motionVars, lightVars, rxVars>>
    /\ UNCHANGED threadVars

\* SendLightCmd(light_cmd_count++), lines 252 and 186-221: the id by the
\* connected flags, the content and the clearing of light_ctrl_requested_
\* under light_cmd_mutex_, the count, the checksum when CAN is connected
SendLightCmd_Build ==
    /\ pc = "l_build"
    /\ l_msg' =
         [id       |-> IF can_connected_ THEN "CAN_MSG_LIGHT_CONTROL_CMD_ID"
                       ELSE IF serial_connected_ THEN "FRAME_LIGHT_CONTROL_CMD_ID"
                       ELSE "indeterminate",
          light_ctrl_enable  |-> IF light_ctrl_enabled_ THEN "LIGHT_ENABLE_CTRL"
                                 ELSE "LIGHT_DISABLE_CTRL",
          front_light_mode   |-> IF light_ctrl_enabled_ THEN current_light_cmd_.front_mode
                                 ELSE "CONST_OFF",
          front_light_custom |-> IF light_ctrl_enabled_
                                 THEN current_light_cmd_.front_custom_value ELSE 0,
          rear_light_mode    |-> IF light_ctrl_enabled_ THEN current_light_cmd_.rear_mode
                                 ELSE "CONST_OFF",
          rear_light_custom  |-> IF light_ctrl_enabled_
                                 THEN current_light_cmd_.rear_custom_value ELSE 0,
          count    |-> CountArgument(light_cmd_count),
          checksum |-> IF can_connected_ THEN "Agilex_CANMsgChecksum"
                       ELSE "indeterminate"]
    /\ light_ctrl_requested_' = FALSE
    /\ light_call_since_clear' = FALSE
    /\ light_cmd_count' = NextCount(light_cmd_count)
    /\ pc' = "l_send"
    /\ UNCHANGED <<current_light_cmd_, light_ctrl_enabled_, light_call_since_tx>>
    /\ UNCHANGED <<cmd_thread_started_, cmd_count, m_msg,
                   wire_motion, wire_light, tick_motion, tick_light>>
    /\ UNCHANGED <<connVars, motionVars, rxVars>>
    /\ light_cmd_mutex_ = "free"
    /\ UNCHANGED threadVars

\* SendLightCmd, lines 224-235
SendLightCmd_Send ==
    /\ pc = "l_send"
    /\ IF can_connected_
       THEN /\ wire_light' = [kind |-> "light", via |-> "can", port |-> can_if_,
                              msg |-> l_msg]
            /\ tick_light' = tick_light + 1
            /\ light_call_since_tx' = FALSE
            /\ pc' = "sleep"
       ELSE IF serial_if_ = "null"
       THEN /\ pc' = "crashed"
            /\ UNCHANGED <<wire_light, tick_light, light_call_since_tx>>
       ELSE /\ wire_light' = [kind |-> "light", via |-> "serial", port |-> serial_if_,
                              msg |-> l_msg]
            /\ tick_light' = tick_light + 1
            /\ light_call_since_tx' = FALSE
            /\ pc' = "sleep"
    /\ l_msg' = NoMsg
    /\ UNCHANGED <<current_light_cmd_, light_ctrl_enabled_, light_ctrl_requested_,
                   light_call_since_clear>>
    /\ UNCHANGED <<cmd_thread_started_, cmd_count, light_cmd_count, m_msg,
                   wire_motion, tick_motion>>
    /\ UNCHANGED <<connVars, motionVars, rxVars>>
    /\ UNCHANGED threadVars

\* line 254 and the loop's back edge
ControlLoop_Sleep ==
    /\ pc = "sleep"
    /\ pc' = "tic"
    /\ UNCHANGED <<cmd_thread_started_, cmd_count, light_cmd_count, m_msg, l_msg,
                   wire_motion, wire_light, tick_motion, tick_light>>
    /\ UNCHANGED <<connVars, motionVars, lightVars, rxVars>>
    /\ UNCHANGED threadVars

\* one step of the control-loop thread
ControlLoop(limit) ==
    \/ SendMotionCmd_Build(limit)
    \/ SendMotionCmd_Send
    \/ ControlLoop_CheckLight
    \/ SendLightCmd_Build
    \/ SendLightCmd_Send
    \/ ControlLoop_Sleep

----------------------------------------------------------------------------
(* SetMotionCommand and SendMotionCmd step by step: each lock, each        *)
(* statement inside a critical section and each unlock is a step of its   *)
(* thread.  A lock is a step that waits for the mutex to be free.         *)

\* what a step of caller thread t leaves alone besides its own variables
CallerFrame ==
    /\ UNCHANGED <<connVars, lightVars, rxVars>>
    /\ UNCHANGED <<cmd_count, light_cmd_count, m_msg, l_msg,
                   wire_motion, wire_light, tick_motion, tick_light>>
    /\ UNCHANGED <<light_cmd_mutex_, scout_state_mutex_, dtor, rx_thread, reader,
                   whole_states, last_light_call, light_at_clear>>

\* line 268: the unlocked read of cmd_thread_started_
SetMotionCommand_Check(t, linear_vel, angular_vel, fault_clr_flag) ==
    /\ Alive
    /\ caller[t].at = "idle"
    /\ caller' = [caller EXCEPT ![t] =
                     [at |-> IF cmd_thread_started_ THEN "lock_motion" ELSE "create",
                      calls |-> @.calls + 1,
                      linear_vel |-> linear_vel, angular_vel |-> angular_vel,
                      fault_clr_flag |-> fault_clr_flag]]
    /\ UNCHANGED <<pc, cmd_thread_started_, cmd_threads, motion_cmd_mutex_,
                   motionVars, stored_cmds>>
    /\ CallerFrame

\* line 138: a thread running ControlLoop is created and assigned to
\* cmd_thread_.  Assigning to a cmd_thread_ that is joinable ends the
\* process in std::terminate; two threads inside the assignment at once
\* are a data race, after which either that happened or the earlier
\* thread's handle has been overwritten and both loops run.
StartCmdThread_Create(t) ==
    /\ Alive
    /\ caller[t].at = "create"
    /\ cmd_threads' = cmd_threads + 1
    /\ IF cmd_threads = 0
       THEN /\ pc' = "tic"
            /\ caller' = [caller EXCEPT ![t].at = "set_started"]
       ELSE \E outcome \in {"terminate", "reassigned"} :
                IF outcome = "terminate"
                THEN pc' = "crashed" /\ UNCHANGED caller
                ELSE /\ caller' = [caller EXCEPT ![t].at = "set_started"]
                     /\ UNCHANGED pc
    /\ UNCHANGED <<cmd_thread_started_, motion_cmd_mutex_, motionVars, stored_cmds>>
    /\ CallerFrame

\* line 139
StartCmdThread_SetStarted(t) ==
    /\ Alive
    /\ caller[t].at = "set_started"
    /\ cmd_thread_started_' = TRUE
    /\ caller' = [caller EXCEPT ![t].at = "lock_motion"]
    /\ UNCHANGED <<pc, cmd_threads, motion_cmd_mutex_, motionVars, stored_cmds>>
    /\ CallerFrame

\* the mutant: the lock taken without waiting for it to be free
SetMotionCommand_Lock_nowait(t) ==
    /\ Alive
    /\ caller[t].at = "lock_motion"
    /\ motion_cmd_mutex_' = t
    /\ caller' = [caller EXCEPT ![t].at = "store_linear"]
    /\ UNCHANGED <<pc, cmd_thread_started_, cmd_threads, motionVars, stored_cmds>>
    /\ CallerFrame

\* lines 271-280: the clamps on the arguments, then the lock_guard
SetMotionCommand_Lock(t) ==
    /\ Alive
    /\ caller[t].at = "lock_motion"
    /\ motion_cmd_mutex_ = "free"
    /\ motion_cmd_mutex_' = t
    /\ caller' = [caller EXCEPT ![t].at = "store_linear"]
    /\ UNCHANGED <<pc, cmd_thread_started_, cmd_threads, motionVars, stored_cmds>>
    /\ CallerFrame

\* line 281
SetMotionCommand_StoreLinear(t) ==
    /\ Alive
    /\ caller[t].at = "store_linear"
    /\ \E l8 \in PercentU8(Clamp(caller[t].linear_vel,
                                  min_linear_velocity, max_linear_velocity),
                            max_linear_velocity) :
           current_motion_cmd_' =
               [current_motion_cmd_ EXCEPT !.linear_velocity = ToInt8(l8)]
    /\ caller' = [caller EXCEPT ![t].at = "store_angular"]
    /\ UNCHANGED <<pc, cmd_thread_started_, cmd_threads, motion_cmd_mutex_,
                   motion_call, stored_cmds>>
    /\ CallerFrame

\* line 282
SetMotionCommand_StoreAngular(t) ==
    /\ Alive
    /\ caller[t].at = "store_angular"
    /\ \E a8 \in PercentU8(Clamp(caller[t].angular_vel,
                                  min_angular_velocity, max_angular_velocity),
                            max_angular_velocity) :
           current_motion_cmd_' =
               [current_motion_cmd_ EXCEPT !.angular_velocity = ToInt8(a8)]
    /\ caller' = [caller EXCEPT ![t].at = "store_flag"]
    /\ UNCHANGED <<pc, cmd_thread_started_, cmd_threads, motion_cmd_mutex_,
                   motion_call, stored_cmds>>
    /\ CallerFrame

\* line 283
SetMotionCommand_StoreFlag(t) ==
    /\ Alive
    /\ caller[t].at = "store_flag"
    /\ current_motion_cmd_' =
           [current_motion_cmd_ EXCEPT !.fault_clear_flag = caller[t].fault_clr_flag]
    /\ caller' = [caller EXCEPT ![t].at = "unlock_motion"]
    /\ UNCHANGED <<pc, cmd_thread_started_, cmd_threads, motion_cmd_mutex_,
                   motion_call, stored_cmds>>
    /\ CallerFrame

\* line 284: the lock_guard released, the call returns
SetMotionCommand_Unlock(t) ==
    /\ Alive
    /\ caller[t].at = "unlock_motion"
    /\ motion_cmd_mutex_' = "free"
    /\ caller' = [caller EXCEPT ![t] = [at |-> "idle", calls |-> @.calls]]
    /\ stored_cmds' = stored_cmds \cup {current_motion_cmd_}
    /\ motion_call' = [called |-> TRUE, linear_vel |-> caller[t].linear_vel,
                       angular_vel |-> caller[t].angular_vel,
                       fault_clr_flag |-> caller[t].fault_clr_flag]
    /\ UNCHANGED <<pc, cmd_thread_started_, cmd_threads, current_motion_cmd_>>
    /\ CallerFrame

\* the steps of caller thread t inside SetMotionCommand
SetMotionCommand_Step(t) ==
    \/ StartCmdThread_Create(t)
    \/ StartCmdThread_SetStarted(t)
    \/ SetMotionCommand_Lock(t)
    \/ SetMotionCommand_StoreLinear(t)
    \/ SetMotionCommand_StoreAngular(t)
    \/ SetMotionCommand_StoreFlag(t)
    \/ SetMotionCommand_Unlock(t)

\* what a step of the loop thread inside SendMotionCmd leaves alone
\* besides pc, m_msg, cmd_count, the tick observation and the mutex
LoopMotionFrame ==
    /\ UNCHANGED <<cmd_thread_started_, light_cmd_count, l_msg, wire_motion, wire_light>>
    /\ UNCHANGED <<connVars, motionVars, lightVars, rxVars>>
    /\ UNCHANGED <<light_cmd_mutex_, scout_state_mutex_, cmd_threads, stepVars>>

\* SendMotionCmd(cmd_count++), lines 248 and 145-156: the id and control
\* mode by the connected flags; the count (line 166, a write to the local
\* m_msg) is taken with this step
SendMotionCmd_Begin(limit) ==
    /\ pc = "tic"
    /\ cmd_count < limit
    /\ m_msg' =
         [id           |-> IF can_connected_ THEN "CAN_MSG_MOTION_CONTROL_CMD_ID"
                           ELSE IF serial_connected_ THEN "FRAME_MOTION_CONTROL_CMD_ID"
                           ELSE "indeterminate",
          control_mode |-> IF can_connected_ THEN "CTRL_MODE_CMD_CAN"
                           ELSE IF serial_connected_ THEN "CTRL_MODE_CMD_UART"
                           ELSE "indeterminate",
          fault_clear_flag     |-> "indeterminate",
          linear_velocity_cmd  |-> "indeterminate",
          angular_velocity_cmd |-> "indeterminate",
          count        |-> CountArgument(cmd_count),
          checksum     |-> "indeterminate"]
    /\ cmd_count' = NextCount(cmd_count)
    /\ tick_motion' = 0
    /\ tick_light' = 0
    /\ pc' = "m_lock"
    /\ UNCHANGED motion_cmd_mutex_
    /\ LoopMotionFrame

\* line 158
SendMotionCmd_Lock ==
    /\ pc = "m_lock"
    /\ motion_cmd_mutex_ = "free"
    /\ motion_cmd_mutex_' = "loop"
    /\ pc' = "m_copy_flag"
    /\ UNCHANGED <<m_msg, cmd_count, tick_motion, tick_light>>
    /\ LoopMotionFrame

\* line 159
SendMotionCmd_CopyFlag ==
    /\ pc = "m_copy_flag"
    /\ m_msg' = [m_msg EXCEPT !.fault_clear_flag = current_motion_cmd_.fault_clear_flag]
    /\ pc' = "m_copy_linear"
    /\ UNCHANGED <<motion_cmd_mutex_, cmd_count, tick_motion, tick_light>>
    /\ LoopMotionFrame

\* line 160
SendMotionCmd_CopyLinear ==
    /\ pc = "m_copy_linear"
    /\ m_msg' = [m_msg EXCEPT !.linear_velocity_cmd = current_motion_cmd_.linear_velocity]
    /\ pc' = "m_copy_angular"
    /\ UNCHANGED <<motion_cmd_mutex_, cmd_count, tick_motion, tick_light>>
    /\ LoopMotionFrame

\* line 161
SendMotionCmd_CopyAngular ==
    /\ pc = "m_copy_angular"
    /\ m_msg' = [m_msg EXCEPT !.angular_velocity_cmd = current_motion_cmd_.angular_velocity]
    /\ pc' = "m_unlock"
    /\ UNCHANGED <<motion_cmd_mutex_, cmd_count, tick_motion, tick_light>>
    /\ LoopMotionFrame

\* the mutant: the lock kept until after the send
SendMotionCmd_Unlock_kept ==
    /\ pc = "m_unlock"
    /\ pc' = "m_checksum"
    /\ UNCHANGED <<motion_cmd_mutex_, m_msg, cmd_count, tick_motion, tick_light>>
    /\ LoopMotionFrame

\* line 162
SendMotionCmd_Unlock ==
    /\ pc = "m_unlock"
    /\ motion_cmd_mutex_' = "free"
    /\ pc' = "m_checksum"
    /\ UNCHANGED <<m_msg, cmd_count, tick_motion, tick_light>>
    /\ LoopMotionFrame

\* lines 168-169
SendMotionCmd_Checksum ==
    /\ pc = "m_checksum"
    /\ m_msg' = [m_msg EXCEPT !.checksum = IF can_connected_ THEN "Agilex_CANMsgChecksum"
                                           ELSE "indeterminate"]
    /\ pc' = "m_send"
    /\ UNCHANGED <<motion_cmd_mutex_, cmd_count, tick_motion, tick_light>>
    /\ LoopMotionFrame

\* the steps of the loop thread inside SendMotionCmd
SendMotionCmd_Step(limit) ==
    \/ SendMotionCmd_Begin(limit)
    \/ SendMotionCmd_Lock
    \/ SendMotionCmd_CopyFlag
    \/ SendMotionCmd_CopyLinear
    \/ SendMotionCmd_CopyAngular
    \/ SendMotionCmd_Unlock
    \/ SendMotionCmd_Checksum
    \/ SendMotionCmd_Send

----------------------------------------------------------------------------
(* The light setters and SendLightCmd step by step *)

\* what a step of caller thread t inside a light setter leaves alone
\* besides caller, the light command store, its mutex and the observation
LightCallerFrame ==
    /\ UNCHANGED <<connVars, motionVars, loopVars, rxVars>>
    /\ UNCHANGED <<motion_cmd_mutex_, scout_state_mutex_, cmd_threads, dtor,
                   rx_thread, reader, stored_cmds, whole_states, light_at_clear>>

\* line 286: a caller thread enters SetLightCommand(cmd)
SetLightCommand_Call(t, cmd) ==
    /\ Alive
    /\ caller[t].at = "idle"
    /\ caller' = [caller EXCEPT ![t] =
                     [at |-> "sl_lock", calls |-> @.calls + 1, cmd |-> cmd]]
    /\ UNCHANGED <<lightVars, light_cmd_mutex_, last_light_call>>
    /\ LightCallerFrame

\* line 288
SetLightCommand_Lock(t) ==
    /\ Alive
    /\ caller[t].at = "sl_lock"
    /\ light_cmd_mutex_ = "free"
    /\ light_cmd_mutex_' = t
    /\ caller' = [caller EXCEPT ![t].at = "sl_store"]
    /\ UNCHANGED <<lightVars, last_light_call>>
    /\ LightCallerFrame

\* line 289
SetLightCommand_Store(t) ==
    /\ Alive
    /\ caller[t].at = "sl_store"
    /\ current_light_cmd_' = caller[t].cmd
    /\ caller' = [caller EXCEPT ![t].at = "sl_enable"]
    /\ UNCHANGED <<light_ctrl_enabled_, light_ctrl_requested_, light_call_since_tx,
                   light_call_since_clear, light_cmd_mutex_, last_light_call>>
    /\ LightCallerFrame

\* line 290
SetLightCommand_Enable(t) ==
    /\ Alive
    /\ caller[t].at = "sl_enable"
    /\ light_ctrl_enabled_' = TRUE
    /\ caller' = [caller EXCEPT ![t].at = "sl_request"]
    /\ UNCHANGED <<current_light_cmd_, light_ctrl_requested_, light_call_since_tx,
                   light_call_since_clear, light_cmd_mutex_, last_light_call>>
    /\ LightCallerFrame

\* line 291
SetLightCommand_Request(t) ==
    /\ Alive
    /\ caller[t].at = "sl_request"
    /\ light_ctrl_requested_' = TRUE
    /\ caller' = [caller EXCEPT ![t].at = "sl_unlock"]
    /\ UNCHANGED <<current_light_cmd_, light_ctrl_enabled_, light_call_since_tx,
                   light_call_since_clear, light_cmd_mutex_, last_light_call>>
    /\ LightCallerFrame

\* line 292: the lock_guard released, the call returns
SetLightCommand_Unlock(t) ==
    /\ Alive
    /\ caller[t].at = "sl_unlock"
    /\ light_cmd_mutex_' = "free"
    /\ caller' = [caller EXCEPT ![t] = [at |-> "idle", calls |-> @.calls]]
    /\ last_light_call' = [call |-> "SetLightCommand", cmd |-> caller[t].cmd]
    /\ light_call_since_tx' = TRUE
    /\ light_call_since_clear' = TRUE
    /\ UNCHANGED <<current_light_cmd_, light_ctrl_enabled_, light_ctrl_requested_>>
    /\ LightCallerFrame

\* line 294: a caller thread enters DisableLightCmdControl()
DisableLightCmdControl_Call(t) ==
    /\ Alive
    /\ caller[t].at = "idle"
    /\ caller' = [caller EXCEPT ![t] = [at |-> "dl_lock", calls |-> @.calls + 1]]
    /\ UNCHANGED <<lightVars, light_cmd_mutex_, last_light_call>>
    /\ LightCallerFrame

\* line 296
DisableLightCmdControl_Lock(t) ==
    /\ Alive
    /\ caller[t].at = "dl_lock"
    /\ light_cmd_mutex_ = "free"
    /\ light_cmd_mutex_' = t
    /\ caller' = [caller EXCEPT ![t].at = "dl_disable"]
    /\ UNCHANGED <<lightVars, last_light_call>>
    /\ LightCallerFrame

\* line 297
DisableLightCmdControl_Disable(t) ==
    /\ Alive
    /\ caller[t].at = "dl_disable"
    /\ light_ctrl_enabled_' = FALSE
    /\ caller' = [caller EXCEPT ![t].at = "dl_request"]
    /\ UNCHANGED <<current_light_cmd_, light_ctrl_requested_, light_call_since_tx,
                   light_call_since_clear, light_cmd_mutex_, last_light_call>>
    /\ LightCallerFrame

\* line 298
DisableLightCmdControl_Request(t) ==
    /\ Alive
    /\ caller[t].at = "dl_request"
    /\ light_ctrl_requested_' = TRUE
    /\ caller' = [caller EXCEPT ![t].at = "dl_unlock"]
    /\ UNCHANGED <<current_light_cmd_, light_ctrl_enabled_, light_call_since_tx,
                   light_call_since_clear, light_cmd_mutex_, last_light_call>>
    /\ LightCallerFrame

\* line 299: the lock_guard released, the call returns
DisableLightCmdControl_Unlock(t) ==
    /\ Alive
    /\ caller[t].at = "dl_unlock"
    /\ light_cmd_mutex_' = "free"
    /\ caller' = [caller EXCEPT ![t] = [at |-> "idle", calls |-> @.calls]]
    /\ last_light_call' = [call |-> "DisableLightCmdControl"]
    /\ light_call_since_tx' = TRUE
    /\ light_call_since_clear' = TRUE
    /\ UNCHANGED <<current_light_cmd_, light_ctrl_enabled_, light_ctrl_requested_>>
    /\ LightCallerFrame

\* the steps of caller thread t inside a light setter
LightSetter_Step(t) ==
    \/ SetLightCommand_Lock(t)
    \/ SetLightCommand_Store(t)
    \/ SetLightCommand_Enable(t)
    \/ SetLightCommand_Request(t)
    \/ SetLightCommand_Unlock(t)
    \/ DisableLightCmdControl_Lock(t)
    \/ DisableLightCmdControl_Disable(t)
    \/ DisableLightCmdControl_Request(t)
    \/ DisableLightCmdControl_Unlock(t)

\* what a step of the loop thread inside SendLightCmd leaves alone besides
\* pc, l_msg, light_cmd_count, the pending flag and the mutex
LoopLightFrame ==
    /\ UNCHANGED <<cmd_thread_started_, cmd_count, m_msg,
                   wire_motion, wire_light, tick_motion, tick_light>>
    /\ UNCHANGED <<current_light_cmd_, light_ctrl_enabled_, light_call_since_tx>>
    /\ UNCHANGED <<connVars, motionVars, rxVars>>
    /\ UNCHANGED <<motion_cmd_mutex_, scout_state_mutex_, cmd_threads, dtor, caller,
                   rx_thread, reader, stored_cmds, whole_states, last_light_call>>

\* SendLightCmd(light_cmd_count++), lines 252 and 188-193: the id by the
\* connected flags; the count (line 218, a write to the local l_msg) is
\* taken with this step
SendLightCmd_Begin ==
    /\ pc = "l_build"
    /\ l_msg' =
         [id       |-> IF can_connected_ THEN "CAN_MSG_LIGHT_CONTROL_CMD_ID"
                       ELSE IF serial_connected_ THEN "FRAME_LIGHT_CONTROL_CMD_ID"
                       ELSE "indeterminate",
          light_ctrl_enable  |-> "indeterminate",
          front_light_mode   |-> "indeterminate",
          front_light_custom |-> "indeterminate",
          rear_light_mode    |-> "indeterminate",
          rear_light_custom  |-> "indeterminate",
          count    |-> CountArgument(light_cmd_count),
          checksum |-> "indeterminate"]
    /\ light_cmd_count' = NextCount(light_cmd_count)
    /\ pc' = "l_lock"
    /\ UNCHANGED <<light_cmd_mutex_, light_ctrl_requested_, light_call_since_clear,
                   light_at_clear>>
    /\ LoopLightFrame

\* the mutant: the lock taken without waiting for it to be free
SendLightCmd_Lock_nowait ==
    /\ pc = "l_lock"
    /\ light_cmd_mutex_' = "loop"
    /\ pc' = "l_fill"
    /\ UNCHANGED <<l_msg, light_cmd_count, light_ctrl_requested_,
                   light_call_since_clear, light_at_clear>>
    /\ LoopLightFrame

\* line 195
SendLightCmd_Lock ==
    /\ pc = "l_lock"
    /\ light_cmd_mutex_ = "free"
    /\ light_cmd_mutex_' = "loop"
    /\ pc' = "l_fill"
    /\ UNCHANGED <<l_msg, light_cmd_count, light_ctrl_requested_,
                   light_call_since_clear, light_at_clear>>
    /\ LoopLightFrame

\* lines 196-213: the content by light_ctrl_enabled_
SendLightCmd_Fill ==
    /\ pc = "l_fill"
    /\ l_msg' =
         [l_msg EXCEPT
            !.light_ctrl_enable  = IF light_ctrl_enabled_ THEN "LIGHT_ENABLE_CTRL"
                                   ELSE "LIGHT_DISABLE_CTRL",
            !.front_light_mode   = IF light_ctrl_enabled_ THEN current_light_cmd_.front_mode
                                   ELSE "CONST_OFF",
            !.front_light_custom = IF light_ctrl_enabled_
                                   THEN current_light_cmd_.front_custom_value ELSE 0,
            !.rear_light_mode    = IF light_ctrl_enabled_ THEN current_light_cmd_.rear_mode
                                   ELSE "CONST_OFF",
            !.rear_light_custom  = IF light_ctrl_enabled_
                                   THEN current_light_cmd_.rear_custom_value ELSE 0]
    /\ pc' = "l_clear"
    /\ UNCHANGED <<light_cmd_mutex_, light_cmd_count, light_ctrl_requested_,
                   light_call_since_clear, light_at_clear>>
    /\ LoopLightFrame

\* line 214
SendLightCmd_Clear ==
    /\ pc = "l_clear"
    /\ light_ctrl_requested_' = FALSE
    /\ light_call_since_clear' = FALSE
    /\ light_at_clear' = last_light_call
    /\ pc' = "l_unlock"
    /\ UNCHANGED <<light_cmd_mutex_, l_msg, light_cmd_count>>
    /\ LoopLightFrame

\* line 215
SendLightCmd_Unlock ==
    /\ pc = "l_unlock"
    /\ light_cmd_mutex_' = "free"
    /\ pc' = "l_checksum"
    /\ UNCHANGED <<l_msg, light_cmd_count, light_ctrl_requested_,
                   light_call_since_clear, light_at_clear>>
    /\ LoopLightFrame

\* lines 220-221
SendLightCmd_Checksum ==
    /\ pc = "l_checksum"
    /\ l_msg' = [l_msg EXCEPT !.checksum = IF can_connected_ THEN "Agilex_CANMsgChecksum"
                                           ELSE "indeterminate"]
    /\ pc' = "l_send"
    /\ UNCHANGED <<light_cmd_mutex_, light_cmd_count, light_ctrl_requested_,
                   light_call_since_clear, light_at_clear>>
    /\ LoopLightFrame

\* the steps of the loop thread inside SendLightCmd
SendLightCmd_Step ==
    \/ SendLightCmd_Begin
    \/ SendLightCmd_Lock
    \/ SendLightCmd_Fill
    \/ SendLightCmd_Clear
    \/ SendLightCmd_Unlock
    \/ SendLightCmd_Checksum
    \/ SendLightCmd_Send

----------------------------------------------------------------------------
(* The status reducer, scout_base.cpp 329-402 *)

RECURSIVE BitOr(_, _)
\* a | b on non-negative integers
BitOr(a, b) ==
    IF a = 0 THEN b
    ELSE IF b = 0 THEN a
    ELSE (IF a % 2 = 1 \/ b % 2 = 1 THEN 1 ELSE 0) + 2 * BitOr(a \div 2, b \div 2)

\* static_cast<uint16_t>(low_byte) | static_cast<uint16_t>(high_byte) << 8
Assemble16(low_byte, high_byte) == BitOr(low_byte, high_byte * 256)

\* static_cast<int16_t> of a 16-bit pattern
ToInt16(u) == IF u >= 32768 THEN u - 65536 ELSE u

\* the quotient x / d of an integer by a double constant, held exactly
Quotient(x, d) == [num |-> x, den |-> d]

\* the mutant: the int16_t cast left out
DecodeVelocity_unsigned(low_byte, high_byte) ==
    Quotient(Assemble16(low_byte, high_byte), 1000)

\* lines 337-338: static_cast<int16_t>(low | high << 8) / 1000.0
DecodeVelocity(low_byte, high_byte) ==
    Quotient(ToInt16(Assemble16(low_byte, high_byte)), 1000)

\* the mutant: the battery voltage read as a signed value
DecodeBatteryVoltage_signed(low_byte, high_byte) ==
    Quotient(ToInt16(Assemble16(low_byte, high_byte)), 10)

\* line 361: (low | high << 8) / 10.0
DecodeBatteryVoltage(low_byte, high_byte) ==
    Quotient(Assemble16(low_byte, high_byte), 10)

\* lines 369-371 (and 378-380, 387-389, 396-398)
DecodeMotorState(status) ==
    [current     |-> Quotient(Assemble16(status.current.low_byte,
                                         status.current.high_byte), 10),
     rpm         |-> ToInt16(Assemble16(status.rpm.low_byte, status.rpm.high_byte)),
     temperature |-> status.temperature]

LIGHT_DISABLE_CTRL == 0

\* the mutant: each motor message written to the slot after its own
MotorIndex_shifted(updated_msg_type) ==
    CASE updated_msg_type = "ScoutMotor1DriverStatusMsg" -> 1
      [] updated_msg_type = "ScoutMotor2DriverStatusMsg" -> 2
      [] updated_msg_type = "ScoutMotor3DriverStatusMsg" -> 3
      [] updated_msg_type = "ScoutMotor4DriverStatusMsg" -> 0

\* lines 365-400: Motor-k DriverStatus writes motor_states[k - 1]
MotorIndex(updated_msg_type) ==
    CASE updated_msg_type = "ScoutMotor1DriverStatusMsg" -> 0
      [] updated_msg_type = "ScoutMotor2DriverStatusMsg" -> 1
      [] updated_msg_type = "ScoutMotor3DriverStatusMsg" -> 2
      [] updated_msg_type = "ScoutMotor4DriverStatusMsg" -> 3

\* lines 329-402: the state after status_msg
UpdateScoutState(status_msg, state) ==
    LET t == status_msg.updated_msg_type
        st == status_msg.status
    IN  CASE t = "ScoutMotionStatusMsg" ->
               [state EXCEPT
                  !.linear_velocity  = DecodeVelocity(st.linear_velocity.low_byte,
                                                      st.linear_velocity.high_byte),
                  !.angular_velocity = DecodeVelocity(st.angular_velocity.low_byte,
                                                      st.angular_velocity.high_byte)]
          [] t = "ScoutLightStatusMsg" ->
               [state EXCEPT
                  !.light_control_enabled = (st.light_ctrl_enable # LIGHT_DISABLE_CTRL),
                  !.front_light_state = [mode |-> st.front_light_mode,
                                         custom_value |-> st.front_light_custom],
                  !.rear_light_state  = [mode |-> st.rear_light_mode,
                                         custom_value |-> st.rear_light_custom]]
          [] t = "ScoutSystemStatusMsg" ->
               [state EXCEPT
                  !.control_mode    = st.control_mode,
                  !.base_state      = st.base_state,
                  !.battery_voltage = DecodeBatteryVoltage(st.battery_voltage.low_byte,
                                                           st.battery_voltage.high_byte),
                  !.fault_code      = Assemble16(st.fault_code.low_byte,
                                                 st.fault_code.high_byte)]
          [] t \in {"ScoutMotor1DriverStatusMsg", "ScoutMotor2DriverStatusMsg",
                    "ScoutMotor3DriverStatusMsg", "ScoutMotor4DriverStatusMsg"} ->
               [state EXCEPT !.motor_states[MotorIndex(t)] = DecodeMotorState(st)]
          [] OTHER -> state

----------------------------------------------------------------------------
(* The codec the receive path calls (ScoutCANParser) *)

CAN_MSG_MOTION_CONTROL_STATUS_ID == 305
CAN_MSG_LIGHT_CONTROL_STATUS_ID == 321
CAN_MSG_SYSTEM_STATUS_STATUS_ID == 337
CAN_MSG_MOTOR1_DRIVER_STATUS_ID == 512
CAN_MSG_MOTOR2_DRIVER_STATUS_ID == 513
CAN_MSG_MOTOR3_DRIVER_STATUS_ID == 514
CAN_MSG_MOTOR4_DRIVER_STATUS_ID == 515

RECURSIVE SumBytes(_, _, _)
\* data[i] + ... + data[n - 1]
SumBytes(data, i, n) == IF i >= n THEN 0 ELSE data[i] + SumBytes(data, i + 1, n)

\* the one-byte checksum over the id, the length and the payload bytes
\* before the checksum byte
Agilex_CANMsgChecksum(id, data, len) ==
    ((id % 256) + (id \div 256) + len + SumBytes(data, 0, len - 1)) % UInt8Range

Pair(data, i) == [high_byte |-> data[i], low_byte |-> data[i + 1]]

MotorMsgType(can_id) ==
    CASE can_id = CAN_MSG_MOTOR1_DRIVER_STATUS_ID -> "ScoutMotor1DriverStatusMsg"
      [] can_id = CAN_MSG_MOTOR2_DRIVER_STATUS_ID -> "ScoutMotor2DriverStatusMsg"
      [] can_id = CAN_MSG_MOTOR3_DRIVER_STATUS_ID -> "ScoutMotor3DriverStatusMsg"
      [] can_id = CAN_MSG_MOTOR4_DRIVER_STATUS_ID -> "ScoutMotor4DriverStatusMsg"

\* the typed status message of a CAN frame, by its id
UnpackScoutCANFrameToMsg(rx_frame) ==
    LET d == rx_frame.data
        id == rx_frame.can_id
    IN  CASE id = CAN_MSG_MOTION_CONTROL_STATUS_ID ->
               [updated_msg_type |-> "ScoutMotionStatusMsg",
                status |-> [linear_velocity |-> Pair(d, 0),
                            angular_velocity |-> Pair(d, 2)]]
          [] id = CAN_MSG_LIGHT_CONTROL_STATUS_ID ->
               [updated_msg_type |-> "ScoutLightStatusMsg",
                status |-> [light_ctrl_enable |-> d[0],
                            front_light_mode |-> d[1], front_light_custom |-> d[2],
                            rear_light_mode |-> d[3], rear_light_custom |-> d[4]]]
          [] id = CAN_MSG_SYSTEM_STATUS_STATUS_ID ->
               [updated_msg_type |-> "ScoutSystemStatusMsg",
                status |-> [base_state |-> d[0], control_mode |-> d[1],
                            battery_voltage |-> Pair(d, 2),
                            fault_code |-> Pair(d, 4)]]
          [] id \in {CAN_MSG_MOTOR1_DRIVER_STATUS_ID, CAN_MSG_MOTOR2_DRIVER_STATUS_ID,
                     CAN_MSG_MOTOR3_DRIVER_STATUS_ID, CAN_MSG_MOTOR4_DRIVER_STATUS_ID} ->
               [updated_msg_type |-> MotorMsgType(id),
                status |-> [current |-> Pair(d, 0), rpm |-> Pair(d, 2),
                            temperature |-> d[4]]]
          [] OTHER -> [updated_msg_type |-> "ScoutStatusNone", status |-> [none |-> 0]]

----------------------------------------------------------------------------
(* The receive path, scout_base.cpp 301-327 *)

\* the mutant: the negation left out, so that a matching checksum discards
ChecksumTestDiscards_equal(rx_frame) ==
    rx_frame.data[7] =
        Agilex_CANMsgChecksum(rx_frame.can_id, rx_frame.data, rx_frame.can_dlc)

\* line 304: !rx_frame->data[7] == Agilex_CANMsgChecksum(...).  The negation
\* applies to the byte: !data[7] is 1 for a zero byte and 0 for any other,
\* and that 0 or 1 is what is compared with the checksum.
ChecksumTestDiscards(rx_frame) ==
    (IF rx_frame.data[7] = 0 THEN 1 ELSE 0) =
        Agilex_CANMsgChecksum(rx_frame.can_id, rx_frame.data, rx_frame.can_dlc)

\* lines 322-327: the reducer under scout_state_mutex_
NewStatusMsgReceivedCallback(msg) ==
    scout_state_' = UpdateScoutState(msg, scout_state_)

\* lines 301-313, the callback ConfigureCANBus registers on the CAN handle
ParseCANFrame(rx_frame) ==
    /\ Alive
    /\ can_if_ # "null"
    /\ IF ChecksumTestDiscards(rx_frame)
       THEN /\ UNCHANGED scout_state_
            /\ discarded_before' = TRUE
       ELSE /\ NewStatusMsgReceivedCallback(UnpackScoutCANFrameToMsg(rx_frame))
            /\ UNCHANGED discarded_before
    /\ rx' = [via |-> "can", frame |-> rx_frame,
              msg |-> UnpackScoutCANFrameToMsg(rx_frame),
              discarded |-> ChecksumTestDiscards(rx_frame)]
    /\ UNCHANGED <<connVars, motionVars, lightVars, loopVars>>
    /\ scout_state_mutex_ = "free"
    /\ UNCHANGED threadVars

\* lines 315-320, the callback ConfigureSerial registers on the serial
\* handle: a buffer that completes one frame, which serial_parser_ hands
\* to NewStatusMsgReceivedCallback as msg
ParseUARTBuffer(msg) ==
    /\ Alive
    /\ serial_if_ = "open"
    /\ NewStatusMsgReceivedCallback(msg)
    /\ rx' = [via |-> "serial", frame |-> NoFrame, msg |-> msg, discarded |-> FALSE]
    /\ UNCHANGED discarded_before
    /\ UNCHANGED <<connVars, motionVars, lightVars, loopVars>>
    /\ scout_state_mutex_ = "free"
    /\ UNCHANGED threadVars

----------------------------------------------------------------------------
(* NewStatusMsgReceivedCallback and GetScoutState step by step: the lock, *)
(* each assignment of UpdateScoutState, the unlock.                       *)

\* the assignments UpdateScoutState makes for a message type, in the
\* order of the source (lines 337-338, 345-352, 359-362, 369-371)
WriteTags(t) ==
    CASE t = "ScoutMotionStatusMsg" -> <<"linear_velocity", "angular_velocity">>
      [] t = "ScoutLightStatusMsg" ->
             <<"light_control_enabled", "front_mode", "front_custom_value",
               "rear_mode", "rear_custom_value">>
      [] t = "ScoutSystemStatusMsg" ->
             <<"control_mode", "base_state", "battery_voltage", "fault_code">>
      [] t \in {"ScoutMotor1DriverStatusMsg", "ScoutMotor2DriverStatusMsg",
                "ScoutMotor3DriverStatusMsg", "ScoutMotor4DriverStatusMsg"} ->
             <<"current", "rpm", "temperature">>
      [] OTHER -> <<>>

\* the state while UpdateScoutState is n assignments into a message of
\* type t: old is the state before the call, new the state after it
Written(old, new, t, n) ==
    LET done == {WriteTags(t)[i] : i \in 1..n}
        Pick(tag, o, w) == IF tag \in done THEN w ELSE o
    IN  [linear_velocity  |-> Pick("linear_velocity", old.linear_velocity,
                                   new.linear_velocity),
         angular_velocity |-> Pick("angular_velocity", old.angular_velocity,
                                   new.angular_velocity),
         control_mode     |-> Pick("control_mode", old.control_mode, new.control_mode),
         base_state       |-> Pick("base_state", old.base_state, new.base_state),
         battery_voltage  |-> Pick("battery_voltage", old.battery_voltage,
                                   new.battery_voltage),
         fault_code       |-> Pick("fault_code", old.fault_code, new.fault_code),
         light_control_enabled |-> Pick("light_control_enabled",
                                        old.light_control_enabled,
                                        new.light_control_enabled),
         front_light_state |->
             [mode |-> Pick("front_mode", old.front_light_state.mode,
                            new.front_light_state.mode),
              custom_value |-> Pick("front_custom_value",
                                    old.front_light_state.custom_value,
                                    new.front_light_state.custom_value)],
         rear_light_state |->
             [mode |-> Pick("rear_mode", old.rear_light_state.mode,
                            new.rear_light_state.mode),
              custom_value |-> Pick("rear_custom_value",
                                    old.rear_light_state.custom_value,
                                    new.rear_light_state.custom_value)],
         motor_states |->
             [i \in 0..3 |->
                 [current     |-> Pick("current", old.motor_states[i].current,
                                       new.motor_states[i].current),
                  rpm         |-> Pick("rpm", old.motor_states[i].rpm,
                                       new.motor_states[i].rpm),
                  temperature |-> Pick("temperature", old.motor_states[i].temperature,
                                       new.motor_states[i].temperature)]]]

\* what a step of the transport thread or of the reader thread leaves
\* alone besides its own variables, scout_state_ and its mutex
StateFrame ==
    /\ UNCHANGED <<connVars, motionVars, lightVars, loopVars>>
    /\ UNCHANGED <<rx, discarded_before>>
    /\ UNCHANGED <<motion_cmd_mutex_, light_cmd_mutex_, cmd_threads, dtor, caller,
                   stored_cmds, last_light_call, light_at_clear>>

\* line 322: a transport thread enters the callback with msg
NewStatusMsgReceivedCallback_Call(msg) ==
    /\ Alive
    /\ can_if_ # "null" \/ serial_if_ = "open"
    /\ rx_thread.at = "idle"
    /\ rx_thread' = [at |-> "lock", n |-> 0, msg |-> msg, base |-> ZeroScoutState,
                     calls |-> rx_thread.calls + 1]
    /\ UNCHANGED <<scout_state_, scout_state_mutex_, reader, whole_states>>
    /\ StateFrame

\* line 325
NewStatusMsgReceivedCallback_Lock ==
    /\ Alive
    /\ rx_thread.at = "lock"
    /\ scout_state_mutex_ = "free"
    /\ scout_state_mutex_' = "rx"
    /\ rx_thread' = [rx_thread EXCEPT !.at = "writing", !.base = scout_state_]
    /\ UNCHANGED <<scout_state_, reader, whole_states>>
    /\ StateFrame

\* line 326, UpdateScoutState: its next assignment to state
UpdateScoutState_Write ==
    /\ Alive
    /\ rx_thread.at = "writing"
    /\ rx_thread.n < Len(WriteTags(rx_thread.msg.updated_msg_type))
    /\ scout_state_' = Written(rx_thread.base,
                               UpdateScoutState(rx_thread.msg, rx_thread.base),
                               rx_thread.msg.updated_msg_type, rx_thread.n + 1)
    /\ rx_thread' = [rx_thread EXCEPT !.n = @ + 1]
    /\ UNCHANGED <<scout_state_mutex_, reader, whole_states>>
    /\ StateFrame

\* line 327: UpdateScoutState has returned, the lock_guard is released
NewStatusMsgReceivedCallback_Unlock ==
    /\ Alive
    /\ rx_thread.at = "writing"
    /\ rx_thread.n = Len(WriteTags(rx_thread.msg.updated_msg_type))
    /\ scout_state_mutex_' = "free"
    /\ whole_states' = whole_states \cup {scout_state_}
    /\ rx_thread' = [IdleRx EXCEPT !.calls = rx_thread.calls]
    /\ UNCHANGED <<scout_state_, reader>>
    /\ StateFrame

\* the steps of the transport thread inside the callback
NewStatusMsgReceivedCallback_Step ==
    \/ NewStatusMsgReceivedCallback_Lock
    \/ UpdateScoutState_Write
    \/ NewStatusMsgReceivedCallback_Unlock

\* line 259: a reader thread enters GetScoutState
GetScoutState_Call ==
    /\ Alive
    /\ reader.at = "idle"
    /\ reader' = [reader EXCEPT !.at = "lock", !.calls = @ + 1]
    /\ UNCHANGED <<scout_state_, scout_state_mutex_, rx_thread, whole_states>>
    /\ StateFrame

\* the mutant: the lock taken without waiting for it to be free
GetScoutState_Lock_nowait ==
    /\ Alive
    /\ reader.at = "lock"
    /\ scout_state_mutex_' = "reader"
    /\ reader' = [reader EXCEPT !.at = "copy"]
    /\ UNCHANGED <<scout_state_, rx_thread, whole_states>>
    /\ StateFrame

\* line 261
GetScoutState_Lock ==
    /\ Alive
    /\ reader.at = "lock"
    /\ scout_state_mutex_ = "free"
    /\ scout_state_mutex_' = "reader"
    /\ reader' = [reader EXCEPT !.at = "copy"]
    /\ UNCHANGED <<scout_state_, rx_thread, whole_states>>
    /\ StateFrame

\* line 262: the return value copied from scout_state_
GetScoutState_Copy ==
    /\ Alive
    /\ reader.at = "copy"
    /\ reader' = [reader EXCEPT !.at = "return", !.copy = scout_state_]
    /\ UNCHANGED <<scout_state_, scout_state_mutex_, rx_thread, whole_states>>
    /\ StateFrame

\* line 263: the lock_guard released, the copy returned
GetScoutState_Return ==
    /\ Alive
    /\ reader.at = "return"
    /\ scout_state_mutex_' = "free"
    /\ reader' = [reader EXCEPT !.at = "idle", !.returned = reader.copy,
                                !.copy = ZeroScoutState]
    /\ UNCHANGED <<scout_state_, rx_thread, whole_states>>
    /\ StateFrame

\* the steps of the reader thread inside GetScoutState
GetScoutState_Step ==
    \/ GetScoutState_Lock
    \/ GetScoutState_Copy
    \/ GetScoutState_Return

----------------------------------------------------------------------------
(* Inputs *)

BaudRates == {0, 115200}

LinearInputs == {-1000, 506}

AngularInputs == {0}

LightCmds ==
    {[front_mode |-> "CONST_ON", front_custom_value |-> 0,
      rear_mode  |-> "CUSTOM",   rear_custom_value  |-> 30]}

\* the public calls of a caller thread
Caller(lins, angs, flags) ==
    \/ \E b \in BaudRates : Connect(b)
    \/ Disconnect
    \/ \E l \in lins, a \in angs, f \in flags : SetMotionCommand(l, a, f)
    \/ light_cmd_count < MaxLightSends /\ \E c \in LightCmds : SetLightCommand(c)
    \/ light_cmd_count < MaxLightSends /\ DisableLightCmdControl

Next ==
    \/ Caller(LinearInputs, AngularInputs, {"NO_FAULT"})
    \/ ControlLoop(MaxTicks)

Spec == Init /\ [][Next]_vars

----------------------------------------------------------------------------
(* The long-running specification: a caller that connects once and sets   *)
(* one motion command, no bound on the ticks, so that the uint8_t         *)
(* counters wrap.                                                         *)

CallerLong ==
    \/ conn_call.baud = -1 /\ \E b \in BaudRates : Connect(b)
    \/ Disconnect
    \/ SetMotionCommand(506, 0, "NO_FAULT")
    \/ light_cmd_count < MaxLightSends /\ \E c \in LightCmds : SetLightCommand(c)
    \/ light_cmd_count < MaxLightSends /\ DisableLightCmdControl

NextLong ==
    \/ CallerLong
    \/ ControlLoop(UInt8Range)

SpecLong == Init /\ [][NextLong]_vars

----------------------------------------------------------------------------
(* The specification of a connected session: the caller connects first.   *)

CallerConnected ==
    \/ conn_call.baud = -1 /\ \E b \in BaudRates : Connect(b)
    \/ conn_call.baud # -1 /\ Disconnect
    \/ conn_call.baud # -1 /\ SetMotionCommand(506, 0, "NO_FAULT")
    \/ conn_call.baud # -1 /\ light_cmd_count < MaxLightSends
          /\ \E c \in LightCmds : SetLightCommand(c)
    \/ conn_call.baud # -1 /\ light_cmd_count < MaxLightSends
          /\ DisableLightCmdControl

NextConnected ==
    \/ CallerConnected
    \/ ControlLoop(UInt8Range)

SpecConnected == Init /\ [][NextConnected]_vars

\* a started loop thread is scheduled: each of its steps is eventually taken
FairConnected == SpecConnected /\ WF_vars(ControlLoop(UInt8Range))

----------------------------------------------------------------------------
(* The specification of a session that ends: the calls of a connected     *)
(* session until the object is destroyed, then the destructor.            *)

NextDestroy ==
    \/ dtor = "none" /\ CallerConnected
    \/ conn_call.baud # -1 /\ Destructor
    \/ ControlLoop(UInt8Range)

SpecDestroy == Init /\ [][NextDestroy]_vars

\* the loop thread and the destroying thread are scheduled
FairDestroy ==
    SpecDestroy /\ WF_vars(ControlLoop(UInt8Range)) /\ WF_vars(Destructor)

----------------------------------------------------------------------------
(* The motion specifications, step by step: two caller threads in         *)
(* SetMotionCommand, and the loop thread.                                 *)

\* the arguments each caller thread passes
MotionArgs(t) ==
    IF t = "c1" THEN <<506, 0, "NO_FAULT">> ELSE <<1000, 1000, "CLEAR_ALL_FAULT">>

\* a caller thread enters SetMotionCommand
SetMotionCommand_Call(t) ==
    /\ conn_call.baud # -1
    /\ caller[t].calls < MaxCalls
    /\ SetMotionCommand_Check(t, MotionArgs(t)[1], MotionArgs(t)[2], MotionArgs(t)[3])

\* both caller threads call from the start
NextStart ==
    \/ conn_call.baud = -1 /\ \E b \in BaudRates : Connect(b)
    \/ \E t \in Callers : SetMotionCommand_Call(t)
    \/ \E t \in Callers : SetMotionCommand_Step(t)
    \/ SendMotionCmd_Step(MaxTicks)
    \/ ControlLoop_CheckLight
    \/ ControlLoop_Sleep

SpecStart == Init /\ [][NextStart]_vars

\* the second caller thread calls once the first call has started the loop
NextMotion ==
    \/ conn_call.baud = -1 /\ \E b \in BaudRates : Connect(b)
    \/ \E t \in Callers :
           (t = "c1" \/ cmd_thread_started_) /\ SetMotionCommand_Call(t)
    \/ \E t \in Callers : SetMotionCommand_Step(t)
    \/ SendMotionCmd_Step(MaxTicks)
    \/ ControlLoop_CheckLight
    \/ ControlLoop_Sleep

SpecMotion == Init /\ [][NextMotion]_vars

----------------------------------------------------------------------------
(* The light specification, step by step: the session is connected and    *)
(* the loop started by one SetMotionCommand call; then two caller threads *)
(* call the light setters while the loop runs.                            *)

\* the light command each caller thread passes
LightArgs(t) ==
    IF t = "c1" THEN [front_mode |-> "CONST_ON", front_custom_value |-> 0,
                      rear_mode  |-> "CUSTOM",   rear_custom_value  |-> 30]
    ELSE [front_mode |-> "BREATH", front_custom_value |-> 0,
          rear_mode  |-> "CONST_OFF", rear_custom_value  |-> 0]

\* caller thread t enters a light setter
LightSetter_Call(t) ==
    /\ cmd_thread_started_
    /\ caller[t].calls < MaxCalls
    /\ \/ SetLightCommand_Call(t, LightArgs(t))
       \/ DisableLightCmdControl_Call(t)

NextLight ==
    \/ conn_call.baud = -1 /\ \E b \in BaudRates : Connect(b)
    \/ conn_call.baud # -1 /\ ~cmd_thread_started_
          /\ SetMotionCommand(506, 0, "NO_FAULT")
    \/ \E t \in Callers : LightSetter_Call(t)
    \/ \E t \in Callers : LightSetter_Step(t)
    \/ SendMotionCmd_Build(MaxTicks)
    \/ SendMotionCmd_Send
    \/ ControlLoop_CheckLight
    \/ SendLightCmd_Step
    \/ ControlLoop_Sleep

SpecLight == Init /\ [][NextLight]_vars

----------------------------------------------------------------------------
(* The receive specification: a caller that connects once, and the        *)
(* transport threads delivering frames.                                   *)

\* payload bytes 0..6 of the status frames delivered, by CAN id:
\* motion   (linear high, low, angular high, low),
\* system   (base state, control mode, battery high, low, fault high, low),
\* light    (enable, front mode, front custom, rear mode, rear custom),
\* motor k  (current high, low, rpm high, low, temperature),
\* and one frame of an id that is no status message
RxPayloads ==
    {<<CAN_MSG_MOTION_CONTROL_STATUS_ID, <<3, 232, 254, 12, 0, 0, 0>>>>,
     <<CAN_MSG_MOTION_CONTROL_STATUS_ID, <<255, 255, 128, 0, 0, 0, 0>>>>,
     <<CAN_MSG_MOTION_CONTROL_STATUS_ID, <<127, 255, 3, 232, 0, 0, 0>>>>,
     <<CAN_MSG_SYSTEM_STATUS_STATUS_ID, <<0, 1, 1, 112, 0, 0, 0>>>>,
     <<CAN_MSG_SYSTEM_STATUS_STATUS_ID, <<1, 2, 128, 1, 255, 255, 0>>>>,
     <<CAN_MSG_SYSTEM_STATUS_STATUS_ID, <<2, 0, 255, 255, 1, 0, 0>>>>,
     <<CAN_MSG_LIGHT_CONTROL_STATUS_ID, <<1, 1, 0, 3, 40, 0, 0>>>>,
     <<CAN_MSG_LIGHT_CONTROL_STATUS_ID, <<0, 0, 0, 0, 0, 0, 0>>>>,
     <<CAN_MSG_MOTOR1_DRIVER_STATUS_ID, <<1, 5, 255, 156, 41, 0, 0>>>>,
     <<CAN_MSG_MOTOR2_DRIVER_STATUS_ID, <<1, 5, 255, 156, 42, 0, 0>>>>,
     <<CAN_MSG_MOTOR3_DRIVER_STATUS_ID, <<1, 5, 255, 156, 43, 0, 0>>>>,
     <<CAN_MSG_MOTOR4_DRIVER_STATUS_ID, <<1, 5, 255, 156, 44, 0, 0>>>>,
     <<529, <<9, 9, 9, 9, 9, 9, 0>>>>}

\* the payloads also delivered with their count byte set so that the
\* checksum of the frame is 0 or 1
RxPayloadsTuned ==
    {<<CAN_MSG_MOTION_CONTROL_STATUS_ID, <<3, 232, 254, 12, 0, 0, 0>>>>,
     <<CAN_MSG_SYSTEM_STATUS_STATUS_ID, <<0, 1, 1, 112, 0, 0, 0>>>>}

\* a CAN frame of 8 bytes: the payload and the byte in the checksum place
Frame(id, payload, last) ==
    [can_id |-> id, can_dlc |-> 8,
     data |-> [i \in 0..7 |-> IF i = 7 THEN last ELSE payload[i + 1]]]

ChecksumOf(id, payload) ==
    Agilex_CANMsgChecksum(id, Frame(id, payload, 0).data, 8)

\* payload with its count byte chosen so that the frame's checksum is target
Tuned(id, payload, target) ==
    [payload EXCEPT ![7] = (target + UInt8Range - ChecksumOf(id, payload)) % UInt8Range]

\* each payload with its checksum and with a checksum off by one; the tuned
\* payloads with checksum 0 and 1, correct and wrong
CANFrames ==
    {Frame(p[1], p[2], ChecksumOf(p[1], p[2])) : p \in RxPayloads}
    \cup {Frame(p[1], p[2], (ChecksumOf(p[1], p[2]) + 1) % UInt8Range) : p \in RxPayloads}
    \cup {Frame(p[1], Tuned(p[1], p[2], t), last) :
             p \in RxPayloadsTuned, t \in {0, 1}, last \in {0, 1, 7}}

\* the messages serial_parser_ delivers
StatusMsgs ==
    {UnpackScoutCANFrameToMsg(Frame(p[1], p[2], 0)) : p \in RxPayloads}

NextRx ==
    \/ conn_call.baud = -1 /\ \E b \in BaudRates : Connect(b)
    \/ Disconnect
    \/ \E f \in CANFrames : ParseCANFrame(f)
    \/ \E m \in StatusMsgs : ParseUARTBuffer(m)

SpecRx == Init /\ [][NextRx]_vars

----------------------------------------------------------------------------
(* The state specification, step by step: a transport thread delivering   *)
(* status messages and a reader thread calling GetScoutState.             *)

\* the status messages delivered: two MotionStatus, a SystemStatus, a
\* Motor-3 DriverStatus
StateMsgs ==
    {UnpackScoutCANFrameToMsg(Frame(p[1], p[2], 0)) :
        p \in {<<CAN_MSG_MOTION_CONTROL_STATUS_ID, <<3, 232, 254, 12, 0, 0, 0>>>>,
               <<CAN_MSG_MOTION_CONTROL_STATUS_ID, <<255, 255, 128, 0, 0, 0, 0>>>>,
               <<CAN_MSG_SYSTEM_STATUS_STATUS_ID, <<0, 1, 1, 112, 0, 0, 0>>>>,
               <<CAN_MSG_MOTOR3_DRIVER_STATUS_ID, <<1, 5, 255, 156, 43, 0, 0>>>>}}

NextState ==
    \/ conn_call.baud = -1 /\ \E b \in BaudRates : Connect(b)
    \/ rx_thread.calls < MaxCalls
          /\ \E m \in StateMsgs : NewStatusMsgReceivedCallback_Call(m)
    \/ NewStatusMsgReceivedCallback_Step
    \/ reader.calls < MaxCalls /\ GetScoutState_Call
    \/ GetScoutState_Step

SpecState == Init /\ [][NextState]_vars

----------------------------------------------------------------------------
(* The specification of all threads, step by step: one caller thread in   *)
(* the three setters, the loop thread, a transport thread and a reader.   *)

NextThreads ==
    \/ conn_call.baud = -1 /\ Connect(0)
    \/ SetMotionCommand_Call("c1")
    \/ SetMotionCommand_Step("c1")
    \/ LightSetter_Call("c1")
    \/ LightSetter_Step("c1")
    \/ SendMotionCmd_Step(MaxTicks)
    \/ ControlLoop_CheckLight
    \/ SendLightCmd_Step
    \/ ControlLoop_Sleep
    \/ rx_thread.calls < MaxReads
          /\ NewStatusMsgReceivedCallback_Call(
                 UnpackScoutCANFrameToMsg(Frame(CAN_MSG_MOTION_CONTROL_STATUS_ID,
                                                <<3, 232, 254, 12, 0, 0, 0>>, 0)))
    \/ NewStatusMsgReceivedCallback_Step
    \/ reader.calls < MaxReads /\ GetScoutState_Call
    \/ GetScoutState_Step

SpecThreads == Init /\ [][NextThreads]_vars

----------------------------------------------------------------------------
(* Connection manager: C1, C2 *)

\* C1: a Connect call with baud_rate = 0 creates the CAN handle and sets
\* can_connected_, and leaves the serial handle and serial_connected_ as
\* they were; a call with baud_rate # 0 creates the serial handle (open or
\* not), sets serial_connected_ exactly when the port opened, and leaves
\* the CAN handle and can_connected_ as they were.
C1_ConnectConfiguresOneTransport ==
    [][conn_call'.n # conn_call.n =>
        IF conn_call'.baud = 0
        THEN /\ can_if_' = "created"
             /\ can_connected_'
             /\ serial_if_' = serial_if_
             /\ serial_connected_' = serial_connected_
        ELSE /\ serial_if_' \in {"open", "closed"}
             /\ serial_connected_' = (serial_connected_ \/ serial_if_' = "open")
             /\ can_if_' = can_if_
             /\ can_connected_' = can_connected_]_vars

\* C1 witness: Connect with baud rate 0 has run on a fresh object: CAN is
\* connected and no serial handle exists.
C1_Witness ==
    /\ conn_call.baud = 0
    /\ can_if_ = "created"
    /\ can_connected_
    /\ serial_if_ = "null"
    /\ ~serial_connected_

\* C2: the CAN transport and the serial transport are never both marked
\* active.
C2_NeverBothConnected == ~(can_connected_ /\ serial_connected_)

----------------------------------------------------------------------------
(* SetMotionCommand: C3 *)

\* round(clamp(v) / max * 100): the percentage the claim asks for
RoundedPercent(v, lo, hi) == RoundDiv(Clamp(v, lo, hi) * 100, hi)

\* C3: after SetMotionCommand the stored linear and angular commands are
\* round(clamped value / maximum magnitude * 100), a signed percentage in
\* -100..100.
C3_StoredCommandIsRoundedPercent ==
    motion_call.called =>
        /\ current_motion_cmd_.linear_velocity =
               RoundedPercent(motion_call.linear_vel,
                              min_linear_velocity, max_linear_velocity)
        /\ current_motion_cmd_.angular_velocity =
               RoundedPercent(motion_call.angular_vel,
                              min_angular_velocity, max_angular_velocity)
        /\ current_motion_cmd_.linear_velocity \in -100..100
        /\ current_motion_cmd_.angular_velocity \in -100..100

----------------------------------------------------------------------------
(* Light frames: C4, C5 *)

\* a step that hands a light frame to a transport
LightFrameSent == tick_light' = tick_light + 1

C5_LightEventuallySent == light_call_since_tx ~> ~light_call_since_tx

----------------------------------------------------------------------------
(* Motion frame count: C6 *)

\* C6: every completed tick has sent exactly one motion frame, the first
\* motion frame carries count 0, and each later one carries the count of
\* the motion frame before it plus 1, modulo 256.
C6_MotionCountAdvancesByOne ==
    [][/\ tick_motion' = tick_motion + 1 =>
              /\ tick_motion' = 1
              /\ wire_motion'.msg.count =
                     IF wire_motion.kind = "none" THEN 0
                     ELSE (wire_motion.msg.count + 1) % 256
       /\ (pc = "sleep" /\ pc' = "tic") => tick_motion = 1]_vars

\* C6 witness: the motion count has wrapped from 255 to 0 (two light
\* frames were sent, so this is not the first tick), and a light frame
\* went out in the same tick.
C6_Witness ==
    /\ wire_motion.kind = "motion"
    /\ wire_motion.msg.count = 0
    /\ light_cmd_count = 2
    /\ tick_light = 1
    /\ tick_motion = 1

----------------------------------------------------------------------------
(* Receive path: C7, C8 *)

\* the checksum byte of the last CAN frame equals the recomputed checksum
RxChecksumMatches(r) ==
    r.frame.data[7] =
        Agilex_CANMsgChecksum(r.frame.can_id, r.frame.data, r.frame.can_dlc)

\* a step in which ParseCANFrame handled a frame
CANFrameHandled == rx' # rx /\ rx'.via = "can"

\* C7: a CAN frame whose checksum byte differs from the recomputed
\* checksum leaves RobotState as it was.
C7_BadChecksumLeavesState ==
    [][CANFrameHandled /\ ~RxChecksumMatches(rx') =>
           scout_state_' = scout_state_]_vars

\* C8: a CAN frame whose checksum byte equals the recomputed checksum is
\* not discarded: the state after it is the reducer's result on the
\* decoded frame, whatever the checksum value and whether or not frames
\* were discarded before.
C8_GoodChecksumIsApplied ==
    [][CANFrameHandled /\ RxChecksumMatches(rx') =>
           /\ ~rx'.discarded
           /\ discarded_before' = discarded_before
           /\ scout_state_' =
                  UpdateScoutState(UnpackScoutCANFrameToMsg(rx'.frame), scout_state_)]_vars

\* C8 witness: after an earlier discard, a motion frame with checksum 0
\* has been applied (linear velocity 1000 / 1000).
C8_Witness ==
    /\ rx.via = "can"
    /\ discarded_before
    /\ ~rx.discarded
    /\ RxChecksumMatches(rx)
    /\ rx.frame.data[7] = 0
    /\ rx.frame.can_id = CAN_MSG_MOTION_CONTROL_STATUS_ID
    /\ scout_state_.linear_velocity = [num |-> 1000, den |-> 1000]

----------------------------------------------------------------------------
(* Reducer: C9, C10 *)

\* a step in which the reducer ran on a message of type t
Reduced(t) == rx' # rx /\ ~rx'.discarded /\ rx'.msg.updated_msg_type = t

\* low + 256 * high read as a two's-complement 16-bit number
Signed16(low, high) ==
    IF low + 256 * high < 32768 THEN low + 256 * high ELSE low + 256 * high - 65536

\* the fraction q equals n / d
IsFraction(q, n, d) == q.den > 0 /\ q.num * d = n * q.den

\* C9: after a MotionStatus message the linear and the angular velocity
\* are the signed 16-bit value (low byte | high byte << 8) divided by 1000.
C9_MotionStatusDecoded ==
    [][Reduced("ScoutMotionStatusMsg") =>
           LET st == rx'.msg.status
           IN  /\ IsFraction(scout_state_'.linear_velocity,
                             Signed16(st.linear_velocity.low_byte,
                                      st.linear_velocity.high_byte), 1000)
               /\ IsFraction(scout_state_'.angular_velocity,
                             Signed16(st.angular_velocity.low_byte,
                                      st.angular_velocity.high_byte), 1000)]_vars

\* C9 witness: bytes {low 0xE8, high 0x03} have given linear velocity 1.0,
\* and angular bytes with the top bit set a negative angular velocity.
C9_Witness ==
    /\ rx.msg.updated_msg_type = "ScoutMotionStatusMsg"
    /\ rx.msg.status.linear_velocity = [high_byte |-> 3, low_byte |-> 232]
    /\ rx.msg.status.angular_velocity.high_byte >= 128
    /\ IsFraction(scout_state_.linear_velocity, 1, 1)
    /\ scout_state_.angular_velocity.num < 0

\* C10: after a SystemStatus message the battery voltage is the unsigned
\* 16-bit value (low byte | high byte << 8) divided by 10, the fault code
\* is the unsigned 16-bit value, and control mode and base state are the
\* message's bytes.
C10_SystemStatusDecoded ==
    [][Reduced("ScoutSystemStatusMsg") =>
           LET st == rx'.msg.status
           IN  /\ IsFraction(scout_state_'.battery_voltage,
                             st.battery_voltage.low_byte
                                 + 256 * st.battery_voltage.high_byte, 10)
               /\ scout_state_'.battery_voltage.num >= 0
               /\ scout_state_'.fault_code =
                      st.fault_code.low_byte + 256 * st.fault_code.high_byte
               /\ scout_state_'.control_mode = st.control_mode
               /\ scout_state_'.base_state = st.base_state]_vars

\* C10 witness: battery bytes {low 0x70, high 0x01} have given 36.8 volts.
C10_Witness ==
    /\ rx.msg.updated_msg_type = "ScoutSystemStatusMsg"
    /\ rx.msg.status.battery_voltage = [high_byte |-> 1, low_byte |-> 112]
    /\ IsFraction(scout_state_.battery_voltage, 368, 10)
    /\ scout_state_.control_mode = 1

----------------------------------------------------------------------------
(* Sending without a transport: C13 *)

\* C13: while no Connect call has been made, a control-loop tick sends on
\* neither handle and dereferences no unset handle.
C13_NoSendWithoutTransport ==
    conn_call.baud = -1 =>
        /\ pc # "crashed"
        /\ wire_motion = NoFrame
        /\ wire_light = NoFrame

----------------------------------------------------------------------------
(* Reducer ownership: C15 *)

\* the RobotState fields a message kind owns
OwnedFields(t) ==
    CASE t = "ScoutMotionStatusMsg" -> {"linear_velocity", "angular_velocity"}
      [] t = "ScoutLightStatusMsg" ->
             {"light_control_enabled", "front_light_state", "rear_light_state"}
      [] t = "ScoutSystemStatusMsg" ->
             {"control_mode", "base_state", "battery_voltage", "fault_code"}
      [] OTHER -> {}

\* the motor slots a message kind owns: slot k - 1 for Motor-k DriverStatus
OwnedMotors(t) ==
    CASE t = "ScoutMotor1DriverStatusMsg" -> {0}
      [] t = "ScoutMotor2DriverStatusMsg" -> {1}
      [] t = "ScoutMotor3DriverStatusMsg" -> {2}
      [] t = "ScoutMotor4DriverStatusMsg" -> {3}
      [] OTHER -> {}

\* C15: a reducer update leaves every RobotState field that the message
\* kind does not own as it was: MotionStatus owns the two velocities,
\* LightStatus the light-enabled flag and the two light states,
\* SystemStatus control mode, base state, battery voltage and fault code,
\* Motor-k DriverStatus motor_states[k - 1]; any other kind owns nothing.
C15_ReducerTouchesOwnedFieldsOnly ==
    [][(rx' # rx /\ ~rx'.discarded) =>
           LET t == rx'.msg.updated_msg_type
           IN  /\ \A f \in (DOMAIN scout_state_ \ {"motor_states"}) \ OwnedFields(t) :
                      scout_state_'[f] = scout_state_[f]
               /\ \A i \in (0..3) \ OwnedMotors(t) :
                      scout_state_'.motor_states[i] = scout_state_.motor_states[i]]_vars

\* C15 witness: a Motor-3 DriverStatus has just been reduced into a state
\* that already held a velocity, a battery voltage, a light state and the
\* state of motor 1, and all of them are still there.
C15_Witness ==
    /\ rx.msg.updated_msg_type = "ScoutMotor3DriverStatusMsg"
    /\ ~rx.discarded
    /\ scout_state_.motor_states[2].temperature = 43
    /\ scout_state_.motor_states[0].temperature = 41
    /\ scout_state_.linear_velocity.num # 0
    /\ scout_state_.battery_voltage.num # 0
    /\ scout_state_.light_control_enabled

----------------------------------------------------------------------------
(* Frames and transports: C18, C19 *)

\* C18: a frame handed to the CAN handle carries the CAN message id (a
\* motion frame also the CAN control mode and an embedded checksum); a
\* frame handed to the serial handle carries the serial frame id (a motion
\* frame also the serial control mode).
C18_FrameCarriesTransportId ==
    /\ (wire_motion.kind = "motion" /\ wire_motion.via = "can") =>
           /\ wire_motion.msg.id = "CAN_MSG_MOTION_CONTROL_CMD_ID"
           /\ wire_motion.msg.control_mode = "CTRL_MODE_CMD_CAN"
           /\ wire_motion.msg.checksum = "Agilex_CANMsgChecksum"
    /\ (wire_motion.kind = "motion" /\ wire_motion.via = "serial") =>
           /\ wire_motion.msg.id = "FRAME_MOTION_CONTROL_CMD_ID"
           /\ wire_motion.msg.control_mode = "CTRL_MODE_CMD_UART"
    /\ (wire_light.kind = "light" /\ wire_light.via = "can") =>
           wire_light.msg.id = "CAN_MSG_LIGHT_CONTROL_CMD_ID"
    /\ (wire_light.kind = "light" /\ wire_light.via = "serial") =>
           wire_light.msg.id = "FRAME_LIGHT_CONTROL_CMD_ID"

\* C19: the control loop hands bytes to the serial handle only while the
\* serial port is open.
C19_SerialSendOnlyWhileOpen ==
    [][/\ (tick_motion' = tick_motion + 1 /\ wire_motion'.via = "serial") =>
              serial_if_ = "open"
       /\ (tick_light' = tick_light + 1 /\ wire_light'.via = "serial") =>
              serial_if_ = "open"]_vars

----------------------------------------------------------------------------
(* Destruction: C12 *)

\* C12: once the destructor waits in join for a started control-loop
\* thread, the loop thread eventually returns and the destructor finishes.
C12_DestructorReturns == (dtor = "joining") ~> (dtor = "done")

----------------------------------------------------------------------------
(* Starting the loop thread: C14 *)

\* C14: whatever SetMotionCommand calls are made, by one caller thread or
\* by several at once, at most one control-loop thread is ever created.
C14_LoopThreadStartedOnce == cmd_threads <= 1

----------------------------------------------------------------------------
(* Motion frames under concurrent setters: C20 *)

\* the command a motion frame carries
FrameCmd(msg) ==
    [linear_velocity  |-> msg.linear_velocity_cmd,
     angular_velocity |-> msg.angular_velocity_cmd,
     fault_clear_flag |-> msg.fault_clear_flag]

\* C20: the (linear velocity, angular velocity, fault-clear flag) triple of
\* every motion frame sent is the triple one completed SetMotionCommand
\* call stored, or the initial command.
C20_FrameCarriesOneCallsCommand ==
    [][tick_motion' = tick_motion + 1 =>
           FrameCmd(wire_motion'.msg) \in stored_cmds]_vars

\* C20 witness: a frame carrying a stored command other than the initial
\* one has gone out while a caller thread is half way through storing
\* another command, and the loop thread waits for the lock.
C20_Witness ==
    /\ wire_motion.kind = "motion"
    /\ FrameCmd(wire_motion.msg) \in stored_cmds \ {InitialMotionCmd}
    /\ current_motion_cmd_ \notin stored_cmds
    /\ pc = "m_lock"
    /\ motion_cmd_mutex_ \in Callers

----------------------------------------------------------------------------
(* Light frame content: C16 *)

\* the content of a light frame
LightContent(msg) ==
    [light_ctrl_enable  |-> msg.light_ctrl_enable,
     front_light_mode   |-> msg.front_light_mode,
     front_light_custom |-> msg.front_light_custom,
     rear_light_mode    |-> msg.rear_light_mode,
     rear_light_custom  |-> msg.rear_light_custom]

\* the content a light setter call asks for
AskedContent(call) ==
    IF call.call = "SetLightCommand"
    THEN [light_ctrl_enable  |-> "LIGHT_ENABLE_CTRL",
          front_light_mode   |-> call.cmd.front_mode,
          front_light_custom |-> call.cmd.front_custom_value,
          rear_light_mode    |-> call.cmd.rear_mode,
          rear_light_custom  |-> call.cmd.rear_custom_value]
    ELSE IF call.call = "DisableLightCmdControl"
    THEN [light_ctrl_enable  |-> "LIGHT_DISABLE_CTRL",
          front_light_mode   |-> "CONST_OFF", front_light_custom |-> 0,
          rear_light_mode    |-> "CONST_OFF", rear_light_custom  |-> 0]
    ELSE [light_ctrl_enable |-> "none"]

\* C16: a light frame sent carries the content of the last light setter
\* call that had completed when the pending flag was cleared for it
\* (enabled with the stored modes and values after SetLightCommand,
\* disabled with both lights constant-off and values 0 after
\* DisableLightCmdControl); and after a call that completed since the
\* last clear the flag is pending.
C16_LightFrameCarriesLastCall ==
    [][/\ LightFrameSent => LightContent(wire_light'.msg) = AskedContent(light_at_clear)
       /\ light_call_since_clear' => light_ctrl_requested_']_vars

\* C16 witness: the frame that went out in this tick is the disable frame
\* of a DisableLightCmdControl call that followed a SetLightCommand call,
\* and a call that completed after the clear has left the flag pending.
C16_Witness ==
    /\ tick_light = 1
    /\ pc = "sleep"
    /\ wire_light.kind = "light"
    /\ wire_light.msg.light_ctrl_enable = "LIGHT_DISABLE_CTRL"
    /\ light_at_clear.call = "DisableLightCmdControl"
    /\ light_ctrl_enabled_
    /\ light_call_since_clear
    /\ light_ctrl_requested_

----------------------------------------------------------------------------
(* Reading RobotState: C11 *)

\* C11: every value GetScoutState has returned is the RobotState as it
\* stood after a whole number of completed reducer updates (the initial
\* state after none): never a state with one message partly written.
C11_ReaderSeesWholeUpdates == reader.returned \in whole_states

\* C11 witness: the reader holds a returned state with the velocities of a
\* completed MotionStatus update and no battery voltage yet (stale across
\* kinds), while the transport thread is one assignment into the next
\* MotionStatus, scout_state_ is partly written, and the reader waits for
\* the lock in its next call.
C11_Witness ==
    /\ reader.returned.linear_velocity.num # 0
    /\ reader.returned.battery_voltage.num = 0
    /\ rx_thread.at = "writing"
    /\ rx_thread.n = 1
    /\ rx_thread.msg.updated_msg_type = "ScoutMotionStatusMsg"
    /\ scout_state_ \notin whole_states
    /\ reader.at = "lock"

----------------------------------------------------------------------------
(* Lock discipline: C17 *)

Threads == Callers \cup {"loop", "rx", "reader"}

\* the mutexes thread t holds
Held(t) ==
    {m \in {"motion_cmd_mutex_", "light_cmd_mutex_", "scout_state_mutex_"} :
        t = (CASE m = "motion_cmd_mutex_" -> motion_cmd_mutex_
               [] m = "light_cmd_mutex_" -> light_cmd_mutex_
               [] m = "scout_state_mutex_" -> scout_state_mutex_)}

\* thread t is at a lock statement
AtLock(t) ==
    CASE t \in Callers -> caller[t].at \in {"lock_motion", "sl_lock", "dl_lock"}
      [] t = "loop" -> pc \in {"m_lock", "l_lock"}
      [] t = "rx" -> rx_thread.at = "lock"
      [] t = "reader" -> reader.at = "lock"

\* C17: no thread holds two of the three mutexes at once; a thread that
\* holds a mutex is not at a lock statement (so no thread waits while it
\* holds, and no cycle of waiting threads can form); and the loop thread
\* holds no mutex when it hands a frame to a transport.
C17_OneLockAtATimeNoneAcrossSend ==
    /\ \A t \in Threads : Cardinality(Held(t)) <= 1
    /\ \A t \in Threads : Held(t) # {} => ~AtLock(t)
    /\ pc \in {"m_send", "l_send"} => Held("loop") = {}

\* C17 witness: the caller thread holds the light mutex and the
\* transport thread the state mutex, the reader waits for the state
\* mutex, and the loop thread, holding nothing, is about to send a motion
\* frame.
C17_Witness ==
    /\ light_cmd_mutex_ = "c1"
    /\ scout_state_mutex_ = "rx"
    /\ reader.at = "lock"
    /\ pc = "m_send"

============================================================================
